---- MODULE Spec2Model ----
(***************************************************************************)
(* Model of eventtracking/backends/awslambda.py: AwsLambdaBackend.send and *)
(* DateTimeJSONEncoder.default.                                            *)
(*                                                                         *)
(* Values.  Python truthiness is what the code tests (`if not x`), so a    *)
(* field holding None, 0, '' or a missing key is the single value 0.       *)
(* User ids are 1..MaxUid.  An e-mail address is a number: 10+u is the     *)
(* address of user u in the user store, StaleEmail is an address that was  *)
(* already in the event when it arrived.  Times are counted in whole       *)
(* hours: a datetime is a day 0..MaxDay (the range datetime.min ..         *)
(* datetime.max), an hour 0..23 and, unless naive, a UTC offset in hours.  *)
(***************************************************************************)
EXTENDS Integers, Sequences, FiniteSets, TLC

MaxUid == 2
MaxDay == 1
StaleEmail == 99

Uids == 1..MaxUid
Offsets == {-5, 0, 9}

Truthy(x) == x # 0

UserEmail(u) == 10 + u
UserName(u) == 20 + u

----------------------------------------------------------------------------
(* Values an event can carry in data['time'].                              *)

NoWhen == [kind |-> "none", naive |-> TRUE, day |-> 0, hour |-> 0, off |-> 0]
ObjWhen == [kind |-> "object", naive |-> TRUE, day |-> 0, hour |-> 0, off |-> 0]
DtWhen == [kind |-> "datetime", naive |-> FALSE, day |-> 0, hour |-> 20, off |-> -5]

DateTimes ==
    { [kind |-> "datetime", naive |-> n, day |-> d, hour |-> h, off |-> o] :
        n \in {FALSE}, d \in 0..MaxDay, h \in 0..23, o \in Offsets }
    \cup
    { [kind |-> "datetime", naive |-> TRUE, day |-> d, hour |-> h, off |-> 0] :
        d \in 0..MaxDay, h \in 0..23 }

Dates == { [kind |-> "date", naive |-> TRUE, day |-> d, hour |-> 0, off |-> 0] :
             d \in 0..MaxDay }

EncValues == DateTimes \cup Dates \cup {ObjWhen}

----------------------------------------------------------------------------
(* DateTimeJSONEncoder.default (the same text in aws_lambda.py, 77-98).    *)
(* astimezone raises OverflowError when the UTC instant leaves the range   *)
(* of datetime; a value that is neither datetime nor date reaches          *)
(* JSONEncoder.default, which raises TypeError.                            *)

Abs(n) == IF n < 0 THEN -n ELSE n

UtcLocalize(dt) == [dt EXCEPT !.naive = FALSE, !.off = 0]

UtcHours(dt) == dt.day * 24 + dt.hour - dt.off

Overflows(dt) == UtcHours(dt) < 0 \/ UtcHours(dt) > MaxDay * 24 + 23

ReplaceTzinfoUtc(dt) == [dt EXCEPT !.off = 0]

AsTimezoneUtc(dt) ==
    [dt EXCEPT !.day = UtcHours(dt) \div 24, !.hour = UtcHours(dt) % 24, !.off = 0]

IsoFormat(dt) ==
    IF dt.kind = "date" THEN << dt.day >>
    ELSE IF dt.naive THEN << dt.day, dt.hour \div 10, dt.hour % 10 >>
    ELSE << dt.day, dt.hour \div 10, dt.hour % 10,
            IF dt.off < 0 THEN -1 ELSE 1, Abs(dt.off) \div 10, Abs(dt.off) % 10 >>

NoOut == [kind |-> "none", iso |-> << >>]
RaiseOut == [kind |-> "raise", iso |-> << >>]

Default(obj) ==
    IF obj.kind = "datetime"
    THEN IF obj.naive
         THEN [kind |-> "str", iso |-> IsoFormat(UtcLocalize(obj))]
         ELSE IF Overflows(obj)
              THEN RaiseOut
              ELSE [kind |-> "str", iso |-> IsoFormat(AsTimezoneUtc(obj))]
    ELSE IF obj.kind = "date"
    THEN [kind |-> "str", iso |-> IsoFormat(obj)]
    ELSE RaiseOut

----------------------------------------------------------------------------
(* Events                                                                  *)

NoContext == [user_id |-> 0, email |-> 0]
NoData == [user_id |-> 0, email |-> 0, username |-> 0, when |-> NoWhen]

EmptyEvent ==
    [empty |-> TRUE, name |-> 0, hasContext |-> FALSE, context |-> NoContext,
     user_id |-> 0, hasData |-> FALSE, data |-> NoData]

Contexts == [user_id : 0..MaxUid, email : {0, StaleEmail}]

Datas ==
    { [user_id |-> u, email |-> 0, username |-> 0, when |-> w] :
        u \in 0..MaxUid, w \in {NoWhen, ObjWhen, DtWhen} }
    \cup
    { [user_id |-> u, email |-> StaleEmail, username |-> 0, when |-> NoWhen] :
        u \in 0..MaxUid }

Events ==
    {EmptyEvent}
    \cup
    { [empty |-> FALSE, name |-> n, hasContext |-> TRUE, context |-> c,
       user_id |-> t, hasData |-> FALSE, data |-> NoData] :
        n \in 0..1, c \in Contexts, t \in 0..MaxUid }
    \cup
    { [empty |-> FALSE, name |-> n, hasContext |-> FALSE, context |-> NoContext,
       user_id |-> t, hasData |-> FALSE, data |-> NoData] :
        n \in 0..1, t \in 0..MaxUid }
    \cup
    { [empty |-> FALSE, name |-> n, hasContext |-> TRUE, context |-> c,
       user_id |-> t, hasData |-> TRUE, data |-> d] :
        n \in 0..1, c \in Contexts, t \in 0..MaxUid, d \in Datas }
    \cup
    { [empty |-> FALSE, name |-> n, hasContext |-> FALSE, context |-> NoContext,
       user_id |-> t, hasData |-> TRUE, data |-> d] :
        n \in 0..1, t \in 0..MaxUid, d \in Datas }

----------------------------------------------------------------------------
(* The user store: User.objects.get(pk=uid).  Lookup is the pk of the row  *)
(* found, 0 when the query raises User.DoesNotExist.                       *)

Stores == [Uids -> BOOLEAN]

LookupAnyRow(st, uid) == uid

Lookup(st, uid) == IF uid \in DOMAIN st /\ st[uid] THEN uid ELSE 0

----------------------------------------------------------------------------
(* json.dumps(event, cls=DateTimeJSONEncoder): the document handed to the  *)
(* transport.  Every value the stock encoder cannot take goes through      *)
(* Default; an absent field is rendered as the empty sequence.             *)

Render(w) == IF w.kind = "none" THEN NoOut ELSE Default(w)

JsonRaises(ev) == ev.hasData /\ Render(ev.data.when).kind = "raise"

JsonDumps(ev) ==
    [name |-> ev.name, hasContext |-> ev.hasContext, context |-> ev.context,
     user_id |-> ev.user_id, hasData |-> ev.hasData,
     data |-> [user_id |-> ev.data.user_id, email |-> ev.data.email,
               username |-> ev.data.username, when |-> Render(ev.data.when).iso]]

----------------------------------------------------------------------------
(* AwsLambdaBackend.send, step by step                                     *)

NameNotChecked(ev) == FALSE

MissingName(ev) == ~Truthy(ev.name)

ContextNotChecked(ev) == FALSE

MissingContext(ev) == ~ev.hasContext

UserIdTopLevelFirst(ev) ==
    IF Truthy(ev.user_id) THEN ev.user_id ELSE ev.context.user_id

UserIdOf(ev) ==
    IF Truthy(ev.context.user_id) THEN ev.context.user_id ELSE ev.user_id

EnrichContext(ev, user) == [ev EXCEPT !.context.email = UserEmail(user)]

MissingData(ev) == ~ev.hasData

DataUserIdIgnored(ev, user_id) == user_id

DataUserIdOf(ev, user_id) ==
    IF Truthy(ev.data.user_id) THEN ev.data.user_id ELSE user_id

EnrichData(ev, data_user) ==
    [ev EXCEPT !.data.email = UserEmail(data_user),
               !.data.username = UserName(data_user)]

EncodedBeforeEnrichment(arrived, enriched) == arrived

EncodedEvent(arrived, enriched) == enriched

Outcome(pre, post, st, lookups, calls, result) ==
    [valid |-> TRUE, pre |-> pre, post |-> post, store |-> st,
     lookups |-> lookups, calls |-> calls, result |-> result]

Dropped(pre, post, st, lookups) == Outcome(pre, post, st, lookups, << >>, "returned")

Forward(ev, ev2, st, lookups, invokeRaises) ==
    IF JsonRaises(EncodedEvent(ev, ev2))
    THEN Outcome(ev, ev2, st, lookups, << >>, "raised")
    ELSE Outcome(ev, ev2, st, lookups, << JsonDumps(EncodedEvent(ev, ev2)) >>,
                 IF invokeRaises THEN "raised" ELSE "returned")

SendOutcome(ev, st, invokeRaises) ==
    IF ev.empty \/ MissingName(ev) \/ MissingContext(ev)
    THEN Dropped(ev, ev, st, << >>)
    ELSE
    LET user_id == UserIdOf(ev) IN
    IF ~Truthy(user_id)
    THEN Dropped(ev, ev, st, << >>)
    ELSE
    LET user == Lookup(st, user_id) IN
    IF user = 0
    THEN Dropped(ev, ev, st, << user_id >>)
    ELSE
    LET ev1 == EnrichContext(ev, user) IN
    IF MissingData(ev1)
    THEN Dropped(ev, ev1, st, << user_id >>)
    ELSE
    LET data_user_id == DataUserIdOf(ev1, user_id) IN
    IF data_user_id = user_id
    THEN Forward(ev, EnrichData(ev1, user), st, << user_id >>, invokeRaises)
    ELSE
    LET data_user == Lookup(st, data_user_id) IN
    IF data_user = 0
    THEN Dropped(ev, ev1, st, << user_id, data_user_id >>)
    ELSE Forward(ev, EnrichData(ev1, data_user), st,
                 << user_id, data_user_id >>, invokeRaises)

----------------------------------------------------------------------------
(* State: the caller's event object, the user store, the record of the     *)
(* most recent send on that object and of the one before it, and the       *)
(* encoder's argument and result.  The backend keeps nothing of its own    *)
(* between calls (lambda_arn and client are set once in __init__), so a    *)
(* behaviour follows one event object from the emitter through any number  *)
(* of sends; Init draws that object and the store.                         *)

VARIABLES event, store, last, prev, encIn, encOut

vars == << event, store, last, prev, encIn, encOut >>

NoSend ==
    [valid |-> FALSE, pre |-> EmptyEvent, post |-> EmptyEvent,
     store |-> [u \in Uids |-> FALSE], lookups |-> << >>, calls |-> << >>,
     result |-> "none"]

Init ==
    /\ event \in Events
    /\ store \in Stores
    /\ last = NoSend
    /\ prev = NoSend
    /\ encIn = ObjWhen
    /\ encOut = NoOut

UpdateStore ==
    /\ \E u \in Uids : store' = [store EXCEPT ![u] = ~@]
    /\ UNCHANGED << event, last, prev, encIn, encOut >>

Send ==
    /\ \E invokeRaises \in BOOLEAN :
         LET o == SendOutcome(event, store, invokeRaises) IN
         /\ event' = o.post
         /\ last' = o
    /\ prev' = last
    /\ UNCHANGED << store, encIn, encOut >>

Next == UpdateStore \/ Send

Spec == Init /\ [][Next]_vars

----------------------------------------------------------------------------
(* The encoder on its own: any value json.dumps hands to default.          *)

InitEnc ==
    /\ event = EmptyEvent
    /\ store = [u \in Uids |-> FALSE]
    /\ last = NoSend
    /\ prev = NoSend
    /\ encIn \in EncValues
    /\ encOut = NoOut

PickValue ==
    /\ \E v \in EncValues : encIn' = v
    /\ encOut' = NoOut
    /\ UNCHANGED << event, store, last, prev >>

Encode ==
    /\ encOut = NoOut
    /\ encOut' = Default(encIn)
    /\ UNCHANGED << event, store, last, prev, encIn >>

NextEnc == PickValue \/ Encode

SpecEnc == InitEnc /\ [][NextEnc]_vars

----------------------------------------------------------------------------
(* Properties of send.  Each is stated on `last`, the record of the most   *)
(* recent send: the event as it arrived (pre), as it was left (post), the  *)
(* store it ran against, the user ids it looked up, the payloads it handed *)
(* to client.invoke and how it ended.                                      *)

EffectiveUid(e) == IF e.context.user_id # 0 THEN e.context.user_id ELSE e.user_id

Resolvable(st, uid) == uid \in DOMAIN st /\ st[uid]

\* C1: an event whose name or context is missing (absent or empty) causes no
\* user-store lookup and no transport invoke, and send returns normally.
C1_NoExternalCallWithoutNameOrContext ==
    (last.valid /\ (last.pre.name = 0 \/ ~last.pre.hasContext))
        => /\ last.lookups = << >>
           /\ last.calls = << >>
           /\ last.result = "returned"

C1_Witness ==
    /\ last.valid
    /\ ~last.pre.empty
    /\ last.pre.name # 0
    /\ ~last.pre.hasContext
    /\ Resolvable(last.store, last.pre.user_id)
    /\ last.pre.hasData
    /\ last.result = "returned"

\* C2 as claimed: every transport invoke comes from an event with a name and
\* a non-empty context that itself carries a resolvable user_id.
C2_ForwardedOnlyWithContextUserId ==
    last.calls # << >>
        => /\ last.pre.name # 0
           /\ last.pre.hasContext
           /\ Resolvable(last.store, last.pre.context.user_id)

\* C2 as amended: every transport invoke comes from an event with a name, a
\* non-empty context and a resolvable user_id, the user_id being the one in
\* the context or, when the context has none, the event's top-level user_id.
C2_ForwardedOnlyWithResolvableUserId ==
    last.calls # << >>
        => /\ last.pre.name # 0
           /\ last.pre.hasContext
           /\ Resolvable(last.store, EffectiveUid(last.pre))

C2_Witness ==
    /\ last.calls # << >>
    /\ last.pre.context.user_id = 0
    /\ Resolvable(last.store, last.pre.user_id)

\* C3: send never propagates an exception to its caller, whatever the user
\* store, the serializer and the transport do.
C3_SendNeverRaises == last.valid => last.result = "returned"

\* C4: no transport invoke when the user id taken from the context does not
\* resolve, nor when data.user_id differs from it and does not resolve.
C4_NoInvokeWhenUserUnresolvable ==
    last.valid =>
        LET uid == EffectiveUid(last.pre)
            duid == last.pre.data.user_id
        IN  /\ (uid # 0 /\ ~Resolvable(last.store, uid)) => last.calls = << >>
            /\ (last.pre.hasData /\ duid # 0 /\ duid # uid
                    /\ ~Resolvable(last.store, duid)) => last.calls = << >>

C4_Witness ==
    /\ last.valid
    /\ last.pre.name # 0
    /\ last.pre.hasContext
    /\ Resolvable(last.store, EffectiveUid(last.pre))
    /\ last.pre.hasData
    /\ last.pre.data.user_id # 0
    /\ last.pre.data.user_id # EffectiveUid(last.pre)
    /\ ~Resolvable(last.store, last.pre.data.user_id)
    /\ last.lookups = << EffectiveUid(last.pre), last.pre.data.user_id >>

\* C5: an event made of a name and a context with a resolvable user_id, and
\* no data, is invoked exactly once, its payload being the event with
\* context.email set to the user's address and nothing else changed.
C5_NameAndContextOnlyIsForwarded ==
    (/\ last.valid
     /\ ~last.pre.empty
     /\ last.pre.name # 0
     /\ last.pre.hasContext
     /\ Resolvable(last.store, last.pre.context.user_id)
     /\ last.pre.user_id = 0
     /\ ~last.pre.hasData)
        => /\ Len(last.calls) = 1
           /\ last.calls[1] =
                JsonDumps([last.pre EXCEPT
                             !.context.email = 10 + last.pre.context.user_id])

\* C6: two sends in a row of the same well-formed event object, the user
\* store unchanged between them, make one transport invoke each, and the two
\* payloads are equal.
WellFormed(e, st) ==
    /\ ~e.empty
    /\ e.name # 0
    /\ e.hasContext
    /\ Resolvable(st, EffectiveUid(e))
    /\ e.hasData
    /\ e.data.user_id # 0 => Resolvable(st, e.data.user_id)
    /\ e.data.when.kind # "object"

C8_EnrichmentFromTheRightUser ==
    last.calls # << >> =>
        LET p == last.calls[1]
            uid == EffectiveUid(last.pre)
            duid == last.pre.data.user_id
        IN  /\ p.context.email = 10 + uid
            /\ IF duid = 0 \/ duid = uid
               THEN /\ p.data.email = 10 + uid
                    /\ p.data.username = 20 + uid
                    /\ last.lookups = << uid >>
               ELSE /\ p.data.email = 10 + duid
                    /\ p.data.username = 20 + duid
                    /\ last.lookups = << uid, duid >>

C8_Witness ==
    /\ last.calls # << >>
    /\ last.pre.data.user_id # 0
    /\ last.pre.data.user_id # EffectiveUid(last.pre)
    /\ last.calls[1].data.email # last.calls[1].context.email

\* C9: the user looked up is context.user_id when the context has one; the
\* top-level user_id is used only when it has none; with neither, send
\* returns without any lookup and without any invoke.
C9_UserIdFromContextThenTopLevel ==
    (last.valid /\ ~last.pre.empty /\ last.pre.name # 0 /\ last.pre.hasContext)
        => /\ last.pre.context.user_id # 0
                => /\ last.lookups # << >>
                   /\ last.lookups[1] = last.pre.context.user_id
           /\ (last.pre.context.user_id = 0 /\ last.pre.user_id # 0)
                => /\ last.lookups # << >>
                   /\ last.lookups[1] = last.pre.user_id
           /\ (last.pre.context.user_id = 0 /\ last.pre.user_id = 0)
                => /\ last.lookups = << >>
                   /\ last.calls = << >>
                   /\ last.result = "returned"

C9_Witness ==
    /\ last.valid
    /\ last.pre.name # 0
    /\ last.pre.hasContext
    /\ last.pre.context.user_id # 0
    /\ last.pre.user_id # 0
    /\ last.pre.user_id # last.pre.context.user_id
    /\ Resolvable(last.store, last.pre.user_id)
    /\ last.lookups = << last.pre.context.user_id >>

\* C10: a send that returns without invoking the transport leaves the
\* caller's event, its context and data included, as it found it.
C10_SkippedSendLeavesEventUnchanged ==
    (last.valid /\ last.calls = << >> /\ last.result = "returned")
        => last.post = last.pre

----------------------------------------------------------------------------
(* Property of the encoder.                                                *)

IsoHour(iso) == iso[2] * 10 + iso[3]

IsoOffset(iso) == iso[4] * (iso[5] * 10 + iso[6])

\* C7: a datetime is rendered as an ISO-8601 string at offset zero that
\* denotes the same instant: an aware datetime is shifted by its offset, a
\* naive one keeps its wall-clock fields and only gains the zero offset.
C7_DatetimeRenderedAsSameInstantUtc ==
    (encIn.kind = "datetime" /\ encOut.kind = "str")
        => /\ Len(encOut.iso) = 6
           /\ IsoOffset(encOut.iso) = 0
           /\ encOut.iso[1] * 24 + IsoHour(encOut.iso)
                = encIn.day * 24 + encIn.hour
                    - (IF encIn.naive THEN 0 ELSE encIn.off)
           /\ encIn.naive
                => /\ encOut.iso[1] = encIn.day
                   /\ IsoHour(encOut.iso) = encIn.hour

C7_Witness ==
    /\ encIn.kind = "datetime"
    /\ ~encIn.naive
    /\ encIn.off # 0
    /\ encOut.kind = "str"
    /\ encOut.iso[1] # encIn.day

====
